---- MODULE Spec2Model ----
(***************************************************************************)
(* Visformer (models/visformer2.py): window attention with relative        *)
(* position bias, the transformer block, and the four-stage network.       *)
(* Tensors are modelled by their shapes (sequences of integers); the       *)
(* drop-path rates are exact rationals; a power head_dim ** e is kept      *)
(* symbolically as base and exponent (exponents in quarters).              *)
(***************************************************************************)
EXTENDS Integers, Sequences, FiniteSets, TLC

VARIABLES attn, relative_position_index, block, y, net, args, x, pc

vars == <<attn, relative_position_index, block, y, net, args, x, pc>>

(*************************** bounds of the model ***************************)
\* largest window / feature-map side of the layer-level operations
MaxWin == 3
\* largest batch size
MaxBatch == 2

(****************************** small helpers ******************************)
Min(a, b) == IF a <= b THEN a ELSE b

\* Python's min() over a tuple of two
MinOf(t) == Min(t[1], t[2])

\* None / Some(v) of an optional argument
None == <<>>
Some(v) == <<v>>

\* _ntuple(2): a scalar is repeated twice
to_2tuple(v) == <<v, v>>

\* numpy.arange(n)
Arange(n) == [i \in 0..(n - 1) |-> i]

\* ops.meshgrid((a, b)) with its default Cartesian ('xy') indexing: for
\* inputs of length M and N the outputs have shape (N, M); the first output
\* varies along the columns, the second along the rows
Meshgrid(a, b) ==
    LET M == Cardinality(DOMAIN a)
        N == Cardinality(DOMAIN b)
    IN  [rows |-> N, cols |-> M,
         grids |-> << [i \in 0..(N - 1) |-> [j \in 0..(M - 1) |-> a[j]]],
                      [i \in 0..(N - 1) |-> [j \in 0..(M - 1) |-> b[i]]] >>]

\* ops.flatten keeps axis 0 and flattens the rest row-major: (2, R*C)
Flatten(m) ==
    [c \in 1..2 |-> [p \in 0..(m.rows * m.cols - 1) |->
                        m.grids[c][p \div m.cols][p % m.cols]]]

\* the shift of the first relative coordinate by window_size[0] - 1
\* (mutant: shifted by window_size[0])
RowShiftOff(window_size) == window_size[1]

RowShift(window_size) == window_size[1] - 1

\* WindowAttention.__init__, the relative_position_index buffer
RelativePositionIndex(window_size) ==
    LET coords_h == Arange(window_size[1])
        coords_w == Arange(window_size[2])
        coords == Meshgrid(coords_h, coords_w)
        coords_flatten == Flatten(coords)
        n == coords.rows * coords.cols
        rel0(p, q) == coords_flatten[1][p] - coords_flatten[1][q]
        rel1(p, q) == coords_flatten[2][p] - coords_flatten[2][q]
    IN  [p \in 0..(n - 1) |-> [q \in 0..(n - 1) |->
            (rel0(p, q) + RowShift(window_size)) * (2 * window_size[2] - 1)
            + (rel1(p, q) + (window_size[2] - 1))]]

\* (mutant: the default exponent is -0.5, the conventional single scale)
QkScaleFactorHalf(qk_scale) ==
    IF qk_scale # None THEN qk_scale[1] ELSE -2

\* qk_scale_factor = qk_scale if qk_scale is not None else -0.25, in
\* quarters
QkScaleFactor(qk_scale) ==
    IF qk_scale # None THEN qk_scale[1] ELSE -1

\* head_dim ** e, kept symbolically; e in quarters
Pow(base, quarters) == [base |-> base, quarters |-> quarters]

\* the product of two powers of one base
PowMul(a, b) == [base |-> a.base, quarters |-> a.quarters + b.quarters]

NoAttn == [kind |-> "none"]

\* a constructor that raises instead of returning
ConstructError(e) == [kind |-> "error", error |-> e]

\* Python's a // b (floor), b # 0
FloorDiv(a, b) == IF b > 0 THEN a \div b ELSE (0 - a) \div (0 - b)

\* Python's int(n / d), d > 0: truncation toward zero
IntTrunc(n, d) == IF n >= 0 THEN n \div d ELSE 0 - ((0 - n) \div d)

\* WindowAttention.__init__ (head_dim_ratio in quarters), in statement
\* order: dim // num_heads raises for num_heads = 0; ops.zeros rejects a
\* negative bias table shape; with head_dim = 0 the power 0 ** e raises for a
\* negative exponent; nn.Conv2d rejects channel counts below 1
WindowAttention(dim, window_size, num_heads, ratio4, qk_scale) ==
    IF num_heads = 0 THEN ConstructError("ZeroDivisionError")
    ELSE
    LET head_dim == IntTrunc(FloorDiv(dim, num_heads) * ratio4, 4)
        rows == (2 * window_size[1] - 1) * (2 * window_size[2] - 1)
    IN  IF rows < 0 \/ num_heads < 0
        THEN ConstructError("ValueError")
        ELSE IF head_dim = 0 /\ QkScaleFactor(qk_scale) < 0
        THEN ConstructError("ZeroDivisionError")
        ELSE IF dim <= 0 \/ head_dim * num_heads * 3 <= 0
        THEN ConstructError("ValueError")
        ELSE [kind |-> "WindowAttention",
              dim |-> dim,
              window_size |-> window_size,
              num_heads |-> num_heads,
              head_dim |-> head_dim,
              bias_table_shape |-> <<rows, num_heads>>,
              qk_scale |-> qk_scale,
              scale |-> Pow(head_dim, QkScaleFactor(qk_scale))]

(***************************** shape arithmetic ****************************)
\* elementwise broadcasting of two shapes of one rank
Broadcastable(s, t) ==
    \A i \in 1..Len(s) : s[i] = t[i] \/ s[i] = 1 \/ t[i] = 1

Broadcast(s, t) == [i \in 1..Len(s) |-> IF s[i] = 1 THEN t[i] ELSE s[i]]

Ok(shape) == [status |-> "ok", at |-> "", shape |-> shape]
Err(at) == [status |-> "error", at |-> at, shape |-> <<>>]

NoResult == [status |-> "none", at |-> "", shape |-> <<>>]

\* WindowAttention.construct on a tensor of shape xs = (B, C, H, W)
WindowAttentionConstruct(a, xs) ==
    LET B == xs[1]
        C == xs[2]
        H == xs[3]
        W == xs[4]
        N == a.window_size[1] * a.window_size[2]
        attn_shape == <<B, a.num_heads, H * W, H * W>>
        bias_shape == <<1, a.num_heads, N, N>>
        sum_shape == Broadcast(attn_shape, bias_shape)
        v_shape == <<B, a.num_heads, H * W, a.head_dim>>
        total == sum_shape[1] * sum_shape[2] * a.head_dim * sum_shape[3]
        chans == total \div (B * H * W)
        logit == PowMul(a.scale, a.scale)
    IN  IF C # a.dim THEN Err("qkv") @@ [logit_scale |-> logit]
        ELSE IF ~Broadcastable(attn_shape, bias_shape)
        THEN Err("bias_add") @@ [logit_scale |-> logit]
        ELSE IF sum_shape[4] # v_shape[3]
        THEN Err("matmul") @@ [logit_scale |-> logit]
        ELSE IF total % (B * H * W) # 0
        THEN Err("reshape") @@ [logit_scale |-> logit]
        ELSE IF chans # a.head_dim * a.num_heads
        THEN Err("proj") @@ [logit_scale |-> logit]
        ELSE Ok(<<B, a.dim, H, W>>) @@ [logit_scale |-> logit]

(********************************* Mlp *************************************)
\* the hidden width of Mlp.__init__: hidden_features or in_features (a
\* hidden_features of 0 stands for both falsy values, 0 and None), replaced
\* when the spatial convolution is enabled
MlpHidden(in_features, hidden_features, group, spatial_conv) ==
    IF spatial_conv
    THEN (IF group < 2 THEN (in_features * 5) \div 6 ELSE in_features * 2)
    ELSE IF hidden_features = 0 THEN in_features
    ELSE hidden_features

\* Mlp.__init__: nn.Conv2d rejects a channel count that is not positive
\* (conv1) or not divisible by group (conv2 of the spatial convolution)
Mlp(in_features, hidden_features, group, spatial_conv) ==
    LET hidden == MlpHidden(in_features, hidden_features, group, spatial_conv)
    IN  IF in_features <= 0 \/ hidden <= 0
        THEN ConstructError("ValueError")
        ELSE IF spatial_conv /\ (group <= 0 \/ hidden % group # 0)
        THEN ConstructError("ValueError")
        ELSE [kind |-> "Mlp",
              in_features |-> in_features,
              out_features |-> in_features,
              spatial_conv |-> spatial_conv,
              hidden_features |-> hidden,
              group |-> group]

(******************************** Block ************************************)
NoBlock == [kind |-> "none"]

\* BatchNorm.__init__: nn.BatchNorm2d rejects num_features < 1
BatchNorm(dim) ==
    IF dim < 1 THEN ConstructError("ValueError")
    ELSE [kind |-> "BatchNorm", num_features |-> dim]

\* Block.__init__ (drop_path is a rational, mlp_ratio an integer). The first
\* layer built is a norm_layer(dim): norm1 before the attention, or norm2
\* when attention is disabled; then the attention, norm2 and the Mlp
Block(dim, input_resolution, num_heads, window_size, shift_size, ratio4, mlp_ratio, qk_scale, drop_path, group, attn_disabled, spatial_conv) ==
    LET clamp == MinOf(input_resolution) <= window_size
        ws == IF clamp THEN MinOf(input_resolution) ELSE window_size
        ss == IF clamp THEN 0 ELSE shift_size
        a == IF ~attn_disabled
             THEN WindowAttention(dim, to_2tuple(ws), num_heads, ratio4,
                                  qk_scale)
             ELSE NoAttn
        m == Mlp(dim, dim * mlp_ratio, group, spatial_conv)
    IN  IF BatchNorm(dim).kind = "error" THEN BatchNorm(dim)
        ELSE IF a.kind = "error" THEN a
        ELSE IF m.kind = "error" THEN m
        ELSE [kind |-> "Block",
              dim |-> dim,
              attn_disabled |-> attn_disabled,
              spatial_conv |-> spatial_conv,
              input_resolution |-> input_resolution,
              window_size |-> ws,
              shift_size |-> ss,
              drop_path |-> drop_path,
              attn |-> a,
              mlp |-> m]

\* Block.construct on a tensor of shape xs: norm1 and norm2 are
\* BatchNorm2d(dim) and reject another channel count; the attention branch
\* (when enabled) and the Mlp branch are added to x, so both keep its shape
BlockConstruct(b, xs) ==
    IF b.attn_disabled
    THEN (IF xs[2] # b.dim THEN Err("norm2") ELSE Ok(xs))
    ELSE IF xs[2] # b.dim THEN Err("norm1")
    ELSE LET r == WindowAttentionConstruct(b.attn, xs)
         IN  IF r.status = "error" THEN Err(r.at) ELSE Ok(xs)

(***************************** drop-path rates *****************************)
\* a rational n/d, d > 0
Rat(n, d) == <<n, d>>
RatLeq(a, b) == a[1] * b[2] <= b[1] * a[2]
RatEq(a, b) == a[1] * b[2] = b[1] * a[2]

\* the divisor of numpy.linspace with endpoint=True
\* (mutant: endpoint excluded, the step is stop / num)
LinspaceDivNoEndpoint(num) == num

LinspaceDiv(num) == num - 1

\* numpy.linspace(0, stop, num).tolist(): y = arange(num) * (stop / div),
\* the last entry is set to stop when num > 1; a single point is the start
Linspace(stop, num) ==
    LET div == LinspaceDiv(num)
    IN  [i \in 1..num |->
            IF div > 0
            THEN (IF num > 1 /\ i = num THEN stop
                  ELSE Rat((i - 1) * stop[1], div * stop[2]))
            ELSE Rat(0, stop[2])]

(******************************* Visformer *********************************)
RECURSIVE SumSeq(_)
SumSeq(s) == IF Len(s) = 0 THEN 0 ELSE s[1] + SumSeq(Tail(s))

\* sum(depth[:k])
SumTo(depth, k) == SumSeq(SubSeq(depth, 1, Min(k, Len(depth))))

\* (mutant: every stage counts its blocks from 0)
StageRangeRestart(depth, k) == [lo |-> 0, hi |-> depth[k + 1]]

\* range(sum(depth[:k]), sum(depth[:k+1])) of stage k = 0..3
StageRange(depth, k) == [lo |-> SumTo(depth, k), hi |-> SumTo(depth, k + 1)]

\* the per-stage constants of Visformer.__init__
StageWindow == <<56, 28, 14, 7>>
StageShift == <<28, 14, 7, 3>>
StageRatio4 == <<1, 2, 4, 4>>

\* embed_dim // 4, embed_dim // 2, embed_dim, embed_dim * 2
StageDim(embed_dim, k) ==
    IF k = 0 THEN embed_dim \div 4
    ELSE IF k = 1 THEN embed_dim \div 2
    ELSE IF k = 2 THEN embed_dim
    ELSE embed_dim * 2

\* img_size after the stem and k + 1 patch embeds (img_size //= 2 each)
RECURSIVE StageRes(_, _)
StageRes(img_size, k) ==
    IF k = 0 THEN (img_size \div 2) \div 2 ELSE StageRes(img_size, k - 1) \div 2

\* num_heads = [num_heads] * 4 unless a list or tuple is given
HeadsList(num_heads) ==
    IF num_heads.scalar THEN [k \in 1..4 |-> num_heads.v] ELSE num_heads.v

\* (mutant: an unknown attn_stage character disables nothing and a '1'
\* disables attention)
AttnDisabledFlagInverted(attn_stage, k) == attn_stage[k + 1] = "1"

\* attn_disabled=(attn_stage[k] == '0')
AttnDisabledFlag(attn_stage, k) == attn_stage[k + 1] = "0"

\* spatial_conv=(spatial_conv[k] == '1')
SpatialConvFlag(spatial_conv, k) == spatial_conv[k + 1] = "1"

\* the indices i of the list comprehension of stage k
StageIndices(depth, k) ==
    LET r == StageRange(depth, k)
    IN  [j \in 1..(r.hi - r.lo) |-> r.lo + j - 1]

\* Python's seq[i]: a negative i counts from the end
InRange(len, i) == 0 - len <= i /\ i < len
PyIndex(len, i) == IF i < 0 THEN len + i + 1 ELSE i + 1

\* the arguments of Block(...) for index i of stage k are evaluated before
\* the call: num_heads[k], dpr[i], attn_stage[k] or spatial_conv[k] out of
\* range raises IndexError
StageIndexError(a, dpr, k, i) ==
    \/ k >= Len(HeadsList(a.num_heads))
    \/ ~InRange(Len(dpr), i)
    \/ k >= Len(a.attn_stage)
    \/ k >= Len(a.spatial_conv)

\* self.stage<k> = nn.CellList([Block(...) for i in range(...)])
StageBlocks(a, dpr, k) ==
    LET idx == StageIndices(a.depth[1], k)
        res == StageRes(a.img_size, k)
    IN  [j \in 1..Len(idx) |->
            IF StageIndexError(a, dpr, k, idx[j])
            THEN ConstructError("IndexError")
            ELSE Block(StageDim(a.embed_dim, k), <<res, res>>,
                       HeadsList(a.num_heads)[k + 1], StageWindow[k + 1],
                       IF idx[j] % 2 = 0 THEN 0 ELSE StageShift[k + 1],
                       StageRatio4[k + 1], a.mlp_ratio, a.qk_scale,
                       dpr[PyIndex(Len(dpr), idx[j])], a.group,
                       AttnDisabledFlag(a.attn_stage, k),
                       SpatialConvFlag(a.spatial_conv, k))]

\* the keyword arguments of Visformer(...), defaults filled in
VisformerArgs(img_size, init_channels, num_classes, embed_dim, depth, num_heads, qk_scale, drop_path_rate, attn_stage, pos_embed, spatial_conv) ==
    [img_size |-> img_size, init_channels |-> init_channels,
     num_classes |-> num_classes, embed_dim |-> embed_dim, depth |-> depth,
     num_heads |-> num_heads, mlp_ratio |-> 4, qk_scale |-> qk_scale,
     drop_path_rate |-> drop_path_rate, attn_stage |-> attn_stage,
     pos_embed |-> pos_embed, spatial_conv |-> spatial_conv, group |-> 8,
     pool |-> TRUE]

\* the blocks of the four stages, in construction order
AllStages(a, dpr) == [k \in 1..4 |-> StageBlocks(a, dpr, k - 1)]

NoFailure == [kind |-> "none"]

\* what building stage k raises, if anything, in statement order: the
\* projection of patch_embed<k> (nn.Conv2d rejects channel counts below 1),
\* pos_embed<k> (ops.zeros rejects a negative shape), then the blocks of the
\* comprehension one after the other
StageFailure(a, dpr, k) ==
    LET blocks == StageBlocks(a, dpr, k)
        bad == {j \in 1..Len(blocks) : blocks[j].kind = "error"}
    IN  IF StageDim(a.embed_dim, k) < 1
        THEN ConstructError("ValueError")
        ELSE IF a.pos_embed /\ StageRes(a.img_size, k) < 0
        THEN ConstructError("ValueError")
        ELSE IF bad # {}
        THEN blocks[CHOOSE j \in bad : \A o \in bad : j <= o]
        ELSE NoFailure

\* Visformer.__init__: the stages are built one after the other, so the
\* first stage that raises ends the construction
Visformer(a) ==
    IF a.depth = None \/ Len(a.depth[1]) # 4
    THEN ConstructError("AssertionError")
    ELSE
    LET depth == a.depth[1]
        dpr == Linspace(a.drop_path_rate, SumSeq(depth))
        failing == {k \in 0..3 : StageFailure(a, dpr, k).kind = "error"}
    IN  IF SumSeq(depth) < 0 \/ a.init_channels < 1
        THEN ConstructError("ValueError")
        ELSE IF failing # {}
        THEN StageFailure(a, dpr, CHOOSE k \in failing :
                                      \A o \in failing : k <= o)
        ELSE IF a.num_classes < 1
        THEN ConstructError("ValueError")
        ELSE [kind |-> "Visformer",
              num_classes |-> a.num_classes,
              embed_dim |-> a.embed_dim,
              init_channels |-> a.init_channels,
              img_size |-> a.img_size,
              pool |-> a.pool,
              depth |-> depth,
              num_heads |-> HeadsList(a.num_heads),
              pos_embed |-> a.pos_embed,
              dpr |-> dpr,
              dpr_index |-> [k \in 1..4 |-> StageIndices(depth, k - 1)],
              resolution |-> [k \in 1..4 |-> StageRes(a.img_size, k - 1)],
              pos_embed_shape |->
                  [k \in 1..4 |-> <<1, StageDim(a.embed_dim, k - 1),
                                    StageRes(a.img_size, k - 1),
                                    StageRes(a.img_size, k - 1)>>],
              stages |-> AllStages(a, dpr),
              head |-> <<a.embed_dim * 2, a.num_classes>>]

(************************ layer-level operations ***************************)
\* inputs of the layer-level operations
LayerDims == {8}
LayerHeads == {1, 2, 16}
LayerWindows == (1..MaxWin) \X (1..MaxWin)
QkScales == {None, Some(-2), Some(-1), Some(0)}
BlockWindowSizes == {2, 7}
BlockShifts == {0, 3}
BlockHeads == {2, 16}
\* spatial_conv and group of the block's Mlp
BlockMlps == {<<FALSE, 8>>, <<TRUE, 8>>, <<TRUE, 3>>}

NoArgs == [call |-> "none"]
NoIndex == <<>>
NoTensor == <<>>
NoNet == [kind |-> "none"]
Idle == [at |-> "idle", stage |-> 0, blk |-> 0, input |-> <<>>]
Fresh == attn = NoAttn /\ block = NoBlock /\ net = NoNet

InitLayers ==
    /\ attn = NoAttn
    /\ relative_position_index = NoIndex
    /\ block = NoBlock
    /\ y = NoResult
    /\ net = NoNet
    /\ args = NoArgs
    /\ x = NoTensor
    /\ pc = Idle

\* WindowAttention(dim, window_size, num_heads, qk_scale=...)
NewWindowAttention ==
    \E dim \in LayerDims, ws \in LayerWindows, nh \in LayerHeads,
       qk \in QkScales :
        /\ Fresh
        /\ attn' = WindowAttention(dim, ws, nh, 4, qk)
        /\ relative_position_index' =
               IF attn'.kind = "WindowAttention"
               THEN RelativePositionIndex(ws) ELSE NoIndex
        /\ args' = [call |-> "WindowAttention", window_size |-> ws,
                    qk_scale |-> qk]
        /\ block' = NoBlock
        /\ y' = NoResult
        /\ x' = NoTensor
        /\ UNCHANGED <<net, pc>>

\* Block(dim, input_resolution, num_heads, window_size, shift_size, ...)
NewBlock ==
    \E dim \in LayerDims, res \in LayerWindows, ws \in BlockWindowSizes,
       ss \in BlockShifts, ad \in BOOLEAN, nh \in BlockHeads,
       mlp \in BlockMlps :
        LET b == Block(dim, res, nh, ws, ss, 4, 4, None, <<0, 1>>, mlp[2],
                       ad, mlp[1])
            built == b.kind = "Block"
        IN  /\ Fresh
            /\ block' = b
            /\ attn' = IF built THEN b.attn ELSE NoAttn
            /\ relative_position_index' =
                   IF built /\ ~ad
                   THEN RelativePositionIndex(b.attn.window_size)
                   ELSE NoIndex
            /\ args' = [call |-> "Block", input_resolution |-> res,
                        window_size |-> ws, shift_size |-> ss]
            /\ y' = NoResult
            /\ x' = NoTensor
            /\ UNCHANGED <<net, pc>>

\* attn(x) for a feature map x of shape (B, dim, H, W)
AttnForward ==
    \E B \in 1..MaxBatch, hw \in LayerWindows :
        /\ attn.kind = "WindowAttention"
        /\ x' = <<B, attn.dim, hw[1], hw[2]>>
        /\ y' = WindowAttentionConstruct(attn, x')
        /\ UNCHANGED <<attn, relative_position_index, block, net, args, pc>>

\* Block.construct on a feature map whose channel count may differ from dim
BlockForward ==
    \E B \in 1..MaxBatch, hw \in LayerWindows, half \in BOOLEAN :
        /\ block.kind = "Block"
        /\ x' = <<B, IF half THEN block.dim \div 2 ELSE block.dim, hw[1], hw[2]>>
        /\ y' = BlockConstruct(block, x')
        /\ UNCHANGED <<attn, relative_position_index, block, net, args, pc>>

NextLayers == NewWindowAttention \/ NewBlock \/ AttnForward \/ BlockForward

SpecLayers == InitLayers /\ [][NextLayers]_vars

(***************************** layer claims ********************************)
\* the window of the attention under consideration
Wh == attn.window_size[1]
Ww == attn.window_size[2]
Positions == 0..(Wh * Ww - 1)
TableRows == (2 * Wh - 1) * (2 * Ww - 1)

\* C2: a Block built with a window_size larger than min(h, w) has the
\* effective window (h, w), shift 0, and an index within the bias table of
\* an (h, w) window
C2_WindowClamping ==
    (args.call = "Block" /\ attn.kind = "WindowAttention"
        /\ args.window_size > MinOf(args.input_resolution))
    => /\ attn.window_size = args.input_resolution
       /\ block.shift_size = 0
       /\ \A p \in DOMAIN relative_position_index :
            \A q \in DOMAIN relative_position_index[p] :
               relative_position_index[p][q] \in
                  0..((2 * args.input_resolution[1] - 1)
                      * (2 * args.input_resolution[2] - 1) - 1)

\* C3: relative_position_index[p][q] = (y_p - y_q + H - 1) * (2W - 1)
\* + (x_p - x_q + W - 1) for the row-major positions y = p div W,
\* x = p mod W; the matrix is (H*W, H*W) with entries in [0, (2H-1)(2W-1))
C3_IndexFormula ==
    attn.kind = "WindowAttention"
    => /\ DOMAIN relative_position_index = Positions
       /\ \A p \in Positions :
            /\ DOMAIN relative_position_index[p] = Positions
            /\ \A q \in Positions :
                 /\ relative_position_index[p][q] =
                       ((p \div Ww) - (q \div Ww) + Wh - 1) * (2 * Ww - 1)
                       + ((p % Ww) - (q % Ww) + Ww - 1)
                 /\ relative_position_index[p][q] \in 0..(TableRows - 1)

\* C4: index(p,q) + index(q,p) = (2H-1)(2W-1) - 1 and index(p,p) is the
\* constant (H-1)(2W-1) + (W-1)
C4_IndexSymmetry ==
    attn.kind = "WindowAttention"
    => \A p \in Positions :
         /\ relative_position_index[p][p] = (Wh - 1) * (2 * Ww - 1) + (Ww - 1)
         /\ \A q \in Positions :
              relative_position_index[p][q] + relative_position_index[q][p]
                 = TableRows - 1

C4_Witness ==
    /\ attn.kind = "WindowAttention"
    /\ attn.window_size = <<2, 3>>
    /\ relative_position_index[0][5] # relative_position_index[5][0]

\* C6: Q and K are each scaled by head_dim ** e, so the logits are scaled by
\* head_dim ** (2e); e = -0.25 by default (logit scale head_dim ** -0.5) and
\* e = qk_scale when the override is given
C6_ScalingEquivalence ==
    (attn.kind = "WindowAttention" /\ "logit_scale" \in DOMAIN y)
    => /\ attn.qk_scale = None =>
            /\ attn.scale = Pow(attn.head_dim, -1)
            /\ y.logit_scale = Pow(attn.head_dim, -2)
       /\ attn.qk_scale # None =>
            /\ attn.scale = Pow(attn.head_dim, attn.qk_scale[1])
            /\ y.logit_scale = Pow(attn.head_dim, 2 * attn.qk_scale[1])

C6_Witness ==
    /\ attn.kind = "WindowAttention"
    /\ attn.qk_scale = None
    /\ attn.head_dim = 4
    /\ "logit_scale" \in DOMAIN y
    /\ y.status = "ok"

\* C8: a feature map of the layer's channel count with H*W # Wh*Ww always
\* ends in a shape error at the bias add
C8_MismatchFailsLoudly ==
    (attn.kind = "WindowAttention" /\ y.status # "none"
        /\ x[2] = attn.dim /\ x[3] * x[4] # Wh * Ww)
    => (y.status = "error" /\ y.at = "bias_add")

(************************ network-level operations *************************)
\* depth of a stage and largest img_size / 32 in the generic constructions
MaxDepth == 2
MaxNetDepth == 1
MaxImgMult == 8
\* image sizes 32 + 1 .. 32 + MaxImgOffset that are not multiples of 32
MaxImgOffset == 7

DefaultHeads == [scalar |-> TRUE, v |-> 6]
DefaultRate == Rat(1, 10)

\* flag strings as character sequences
Flags1111 == <<"1", "1", "1", "1">>
Flags0011 == <<"0", "0", "1", "1">>
Flags1100 == <<"1", "1", "0", "0">>
Flags0000 == <<"0", "0", "0", "0">>
FlagsBadChar == <<"0", "x", "1", "1">>
FlagsShort == <<"0", "0">>
FlagsLong == <<"0", "0", "1", "1", "0">>

DepthLists(m) == {Some(d) : d \in [1..4 -> 0..m]}
\* every stage is either empty or has m blocks
NetDepthLists(m) == {Some(d) : d \in [1..4 -> {0, m}]}
BadDepths == {None, Some(<<1, 1, 1>>), Some(<<1, 1, 1, 1, 1>>)}

\* Visformer(img_size=..., depth=..., attn_stage=..., ...), the other
\* arguments at their defaults
NewVisformerFrom(ImgSizes, EmbedDims, Depths, AttnStages, SpatialConvs, Rates, PosEmbeds) ==
    \E sz \in ImgSizes, ed \in EmbedDims, d \in Depths, ats \in AttnStages,
       sc \in SpatialConvs, r \in Rates, pe \in PosEmbeds :
        LET a == VisformerArgs(sz, 32, 1000, ed, d, DefaultHeads, None, r,
                               ats, pe, sc)
        IN  /\ Fresh
            /\ net' = Visformer(a)
            /\ args' = [call |-> "Visformer", kw |-> a]
            /\ UNCHANGED <<attn, relative_position_index, block, y, x, pc>>

\* constructions over depth lists, flag strings and rates, well-formed or
\* not; with embed_dim = 16 the attention of stage 0 has head_dim 0
BuildVisformer ==
    NewVisformerFrom({224}, {384, 16}, DepthLists(MaxDepth) \cup BadDepths,
                     {Flags1111, Flags0011, FlagsBadChar, FlagsShort,
                      FlagsLong},
                     {Flags1100, FlagsBadChar, FlagsShort},
                     {Rat(0, 1), DefaultRate, Rat(3, 100)}, {TRUE})

\* constructions over image sizes, for the forward pass
NetVisformer ==
    NewVisformerFrom({32 * m : m \in 1..MaxImgMult}
                        \cup {32 + i : i \in 1..MaxImgOffset},
                     {384}, NetDepthLists(MaxNetDepth),
                     {Flags1111, Flags0011, Flags0000},
                     {Flags1100}, {DefaultRate}, {TRUE, FALSE})

\* the four presets. A num_classes keyword binds to the factory's own
\* parameter, so **kwargs never carries it and Visformer(...) is built with
\* its default num_classes = 1000; kwargs is modelled by the optional
\* pos_embed override
FactoryClasses == {1000, 10}
FactoryKwargs == {None, Some(FALSE)}

KwPosEmbed(kwargs) == IF kwargs # None THEN kwargs[1] ELSE TRUE

Factory(name, a, num_classes, kwargs) ==
    /\ Fresh
    /\ net' = Visformer(a)
    /\ args' = [call |-> name, kw |-> a, num_classes |-> num_classes,
                kwargs |-> kwargs]
    /\ UNCHANGED <<attn, relative_position_index, block, y, x, pc>>

visformer_tiny ==
    \E nc \in FactoryClasses, kwargs \in FactoryKwargs :
        Factory("visformer_tiny",
                VisformerArgs(224, 16, 1000, 192,
                              Some(<<0, 7, 4, 4>>),
                              [scalar |-> FALSE, v |-> <<3, 3, 3, 3>>], None,
                              Rat(3, 100), Flags0011, KwPosEmbed(kwargs),
                              Flags1100),
                nc, kwargs)

visformer_small ==
    \E nc \in FactoryClasses, kwargs \in FactoryKwargs :
        Factory("visformer_small",
                VisformerArgs(224, 32, 1000, 384,
                              Some(<<0, 7, 4, 4>>),
                              [scalar |-> FALSE, v |-> <<6, 6, 6, 6>>], None,
                              DefaultRate, Flags0011, KwPosEmbed(kwargs),
                              Flags1100),
                nc, kwargs)

visformer_small_v2 ==
    \E nc \in FactoryClasses, kwargs \in FactoryKwargs :
        Factory("visformer_small_v2",
                VisformerArgs(224, 32, 1000, 256,
                              Some(<<1, 10, 14, 3>>),
                              [scalar |-> FALSE, v |-> <<2, 4, 8, 16>>],
                              Some(-2), DefaultRate, Flags0011,
                              KwPosEmbed(kwargs), Flags1100),
                nc, kwargs)

visformer_tiny_v2 ==
    \E nc \in FactoryClasses, kwargs \in FactoryKwargs :
        Factory("visformer_tiny_v2",
                VisformerArgs(224, 24, 1000, 192,
                              Some(<<1, 4, 6, 3>>),
                              [scalar |-> FALSE, v |-> <<1, 3, 6, 12>>],
                              Some(-2), Rat(3, 100), Flags0011,
                              KwPosEmbed(kwargs), Flags1100),
                nc, kwargs)

(****************************** forward pass *******************************)
\* (mutant: the padding is left out of the output size)
ConvOutNoPad(h, kernel, stride, padding) == ((h - kernel) \div stride) + 1

\* output size of a convolution along one spatial axis (pad_mode='pad')
ConvOut(h, kernel, stride, padding) ==
    ((h + 2 * padding - kernel) \div stride) + 1

\* nn.Conv2d on a tensor of shape xs
Conv2d(xs, in_chans, out_chans, kernel, stride, padding) ==
    IF xs[2] # in_chans
          \/ xs[3] + 2 * padding < kernel \/ xs[4] + 2 * padding < kernel
    THEN Err("conv")
    ELSE Ok(<<xs[1], out_chans, ConvOut(xs[3], kernel, stride, padding),
              ConvOut(xs[4], kernel, stride, padding)>>)

\* input channels of patch_embed<k>
EmbedIn(k) == IF k = 0 THEN net.init_channels ELSE StageDim(net.embed_dim, k - 1)

At(at, k, j) == [at |-> at, stage |-> k, blk |-> j, input |-> pc.input]

\* the position after the blocks 1..j-1 of stage k have run
NextPos(k, j) ==
    IF j <= Len(net.stages[k + 1]) THEN At("blocks", k, j)
    ELSE IF k < 3 THEN At("embed", k + 1, 0)
    ELSE At("head", 3, 0)

Fail(at) ==
    /\ y' = Err(at)
    /\ pc' = At("failed", pc.stage, pc.blk)
    /\ UNCHANGED x

\* x = self.stem(x) on a batch of N images of size s x s
ForwardStem ==
    /\ net.kind = "Visformer"
    /\ pc.at \in {"idle", "done", "failed"}
    /\ \E N \in 1..MaxBatch, s \in {net.img_size, net.img_size + 32} :
        /\ x' = Conv2d(<<N, 3, s, s>>, 3, net.init_channels, 7, 2, 3).shape
        /\ y' = NoResult
        /\ pc' = [at |-> "embed", stage |-> 0, blk |-> 0,
                  input |-> <<N, 3, s, s>>]
        /\ UNCHANGED <<attn, relative_position_index, block, net, args>>

\* x = self.patch_embed<k>(x)
ForwardPatchEmbed ==
    /\ pc.at = "embed"
    /\ LET r == Conv2d(x, EmbedIn(pc.stage), StageDim(net.embed_dim, pc.stage),
                       2, 2, 0)
       IN  IF r.status = "error" THEN Fail("patch_embed")
           ELSE /\ x' = r.shape
                /\ pc' = At("pos", pc.stage, 0)
                /\ UNCHANGED y
    /\ UNCHANGED <<attn, relative_position_index, block, net, args>>

\* if self.pos_embed: x = x + self.pos_embed<k>; x = self.pos_drop(x)
ForwardPosEmbed ==
    /\ pc.at = "pos"
    /\ LET pe == net.pos_embed_shape[pc.stage + 1]
       IN  IF ~net.pos_embed
           THEN /\ pc' = NextPos(pc.stage, 1)
                /\ UNCHANGED <<x, y>>
           ELSE IF ~Broadcastable(x, pe) THEN Fail("pos_embed")
           ELSE /\ x' = Broadcast(x, pe)
                /\ pc' = NextPos(pc.stage, 1)
                /\ UNCHANGED y
    /\ UNCHANGED <<attn, relative_position_index, block, net, args>>

\* for b in self.stage<k>: x = b(x)
ForwardBlock ==
    /\ pc.at = "blocks"
    /\ LET r == BlockConstruct(net.stages[pc.stage + 1][pc.blk], x)
       IN  IF r.status = "error" THEN Fail(r.at)
           ELSE /\ x' = r.shape
                /\ pc' = NextPos(pc.stage, pc.blk + 1)
                /\ UNCHANGED y
    /\ UNCHANGED <<attn, relative_position_index, block, net, args>>

\* norm, global pooling (or x[:, :, 0, 0]) and the classifier head
ForwardHead ==
    /\ pc.at = "head"
    /\ IF x[2] # net.head[1] THEN Fail("head")
       ELSE /\ y' = Ok(<<x[1], net.head[2]>>)
            /\ x' = <<x[1], x[2]>>
            /\ pc' = At("done", 3, 0)
    /\ UNCHANGED <<attn, relative_position_index, block, net, args>>

Forward ==
    \/ ForwardStem
    \/ ForwardPatchEmbed
    \/ ForwardPosEmbed
    \/ ForwardBlock
    \/ ForwardHead

Factories ==
    \/ visformer_tiny
    \/ visformer_small
    \/ visformer_small_v2
    \/ visformer_tiny_v2

\* construction alone
NextBuild == BuildVisformer \/ Factories

SpecBuild == InitLayers /\ [][NextBuild]_vars

\* construction and forward pass
NextNet == NetVisformer \/ Factories \/ Forward

SpecNet == InitLayers /\ [][NextNet]_vars

(**************************** network claims *******************************)
Built == net.kind = "Visformer"

\* C1: for img_size a positive multiple of 32, any depth list and any flags,
\* a forward pass on (N, 3, img_size, img_size) meets no shape error and
\* returns logits of shape (N, num_classes)
C1_ShapeInvariance ==
    (Built /\ net.img_size % 32 = 0 /\ pc.at # "idle"
        /\ pc.input[3] = net.img_size)
    => /\ pc.at # "failed"
       /\ pc.at = "done" => y = Ok(<<pc.input[1], net.num_classes>>)

NonDecreasing(s) == \A i \in 1..(Len(s) - 1) : RatLeq(s[i], s[i + 1])

\* C5 as stated: the schedule has sum(depth) entries, is non-decreasing,
\* starts at 0 and ends at r, and is empty when sum(depth) <= 1
C5_ScheduleAsStated ==
    (Built /\ args.call = "Visformer")
    => LET n == SumSeq(net.depth)
           r == args.kw.drop_path_rate
       IN  /\ Len(net.dpr) = n
           /\ NonDecreasing(net.dpr)
           /\ Len(net.dpr) > 0 =>
                 /\ RatEq(net.dpr[1], Rat(0, 1))
                 /\ RatEq(net.dpr[Len(net.dpr)], r)
           /\ n <= 1 => net.dpr = <<>>

\* C5 (amended): the schedule has exactly sum(depth) entries, is
\* non-decreasing and linearly spaced, starts at 0 when non-empty, ends at r
\* when sum(depth) >= 2, is the single rate 0 when sum(depth) = 1 and is
\* empty only when sum(depth) = 0
C5_Schedule ==
    (Built /\ args.call = "Visformer")
    => LET n == SumSeq(net.depth)
           r == args.kw.drop_path_rate
       IN  /\ Len(net.dpr) = n
           /\ NonDecreasing(net.dpr)
           /\ n >= 1 => RatEq(net.dpr[1], Rat(0, 1))
           /\ n >= 2 =>
                 /\ RatEq(net.dpr[n], r)
                 /\ \A i \in 1..n :
                       RatEq(net.dpr[i], Rat((i - 1) * r[1], (n - 1) * r[2]))
           /\ n = 1 => (Len(net.dpr) = 1 /\ RatEq(net.dpr[1], Rat(0, 1)))

C5_Witness ==
    /\ Built
    /\ args.call = "Visformer"
    /\ SumSeq(net.depth) = 1
    /\ Len(net.dpr) = 1
    /\ args.kw.drop_path_rate[1] > 0

MalformedFlags(f) == Len(f) # 4 \/ \E i \in 1..Len(f) : f[i] \notin {"0", "1"}

MalformedConfig(kw) ==
    \/ kw.depth = None
    \/ Len(kw.depth[1]) # 4
    \/ MalformedFlags(kw.attn_stage)
    \/ MalformedFlags(kw.spatial_conv)

\* C7: a depth that is not a 4-element list, or a malformed attn_stage or
\* spatial_conv string, always fails at construction
C7_ConfigFailsFast ==
    (args.call = "Visformer" /\ MalformedConfig(args.kw))
    => net.kind = "error"

\* the preset table of the factories
PresetTable ==
    [visformer_tiny |->
        [init_channels |-> 16, embed_dim |-> 192, depth |-> <<0, 7, 4, 4>>,
         num_heads |-> <<3, 3, 3, 3>>],
     visformer_small |->
        [init_channels |-> 32, embed_dim |-> 384, depth |-> <<0, 7, 4, 4>>,
         num_heads |-> <<6, 6, 6, 6>>],
     visformer_tiny_v2 |->
        [init_channels |-> 24, embed_dim |-> 192, depth |-> <<1, 4, 6, 3>>,
         num_heads |-> <<1, 3, 6, 12>>],
     visformer_small_v2 |->
        [init_channels |-> 32, embed_dim |-> 256, depth |-> <<1, 10, 14, 3>>,
         num_heads |-> <<2, 4, 8, 16>>]]

\* C9: a factory's model has the preset's init_channels, embed_dim and head
\* counts, depth[k] blocks in stage k, attention off and the 3x3 convolution
\* on in stages 0 and 1, attention on and the convolution off in stages 2, 3
C9_PresetArchitecture ==
    args.call \in DOMAIN PresetTable
    => LET t == PresetTable[args.call]
       IN  /\ Built
           /\ net.init_channels = t.init_channels
           /\ net.embed_dim = t.embed_dim
           /\ net.num_heads = t.num_heads
           /\ \A k \in 1..4 :
                /\ Len(net.stages[k]) = t.depth[k]
                /\ \A j \in 1..Len(net.stages[k]) :
                     LET b == net.stages[k][j]
                     IN  IF k <= 2
                         THEN /\ b.attn_disabled
                              /\ b.attn = NoAttn
                              /\ b.spatial_conv
                              /\ b.mlp.spatial_conv
                         ELSE /\ ~b.attn_disabled
                              /\ b.attn.kind = "WindowAttention"
                              /\ b.attn.num_heads = t.num_heads[k]
                              /\ ~b.spatial_conv
                              /\ ~b.mlp.spatial_conv

C9_Witness ==
    /\ args.call = "visformer_small_v2"
    /\ Built
    /\ Len(net.stages[1]) = 1
    /\ Len(net.stages[3]) = 14

\* the blocks of the network in forward order, as <<stage, position>>
BlockIds == {<<k, j>> \in (1..4) \X (1..SumSeq(net.depth)) :
                j <= Len(net.stages[k])}
Before(a, b) == a[1] < b[1] \/ (a[1] = b[1] /\ a[2] < b[2])

\* C10: block j of stage k has the rate schedule[depth[0] + ... + depth[k-1]
\* + j]; every schedule index is read by exactly one block, none outside the
\* schedule, and the rates are non-decreasing in forward order
C10_DropPathAssignment ==
    (Built /\ args.call = "Visformer")
    => /\ \A k \in 1..4 : Len(net.stages[k]) = net.depth[k]
       /\ \A id \in BlockIds :
            LET i == SumTo(net.depth, id[1] - 1) + id[2] - 1
            IN  /\ net.dpr_index[id[1]][id[2]] = i
                /\ i \in 0..(Len(net.dpr) - 1)
                /\ net.stages[id[1]][id[2]].drop_path = net.dpr[i + 1]
       /\ \A i \in 0..(SumSeq(net.depth) - 1) :
            Cardinality({id \in BlockIds :
                            net.dpr_index[id[1]][id[2]] = i}) = 1
       /\ \A a \in BlockIds : \A b \in BlockIds :
            Before(a, b) =>
               RatLeq(net.stages[a[1]][a[2]].drop_path,
                      net.stages[b[1]][b[2]].drop_path)

C10_Witness ==
    /\ Built
    /\ args.call = "Visformer"
    /\ net.depth = <<2, 0, 1, 2>>
    /\ args.kw.drop_path_rate[1] > 0

\* the forward pass is fed an image of the size the network was built for
FedOwnSize == Built /\ pc.at # "idle" /\ pc.input[3] = net.img_size

\* the feature map that comes out of patch_embed<k> has the stage's width
\* and the resolution the constructor tracked, so that adding the stage's
\* positional embedding broadcasts over the batch only
StageGeometry ==
    /\ pc.at = "pos" =>
          LET k == pc.stage
              r == net.resolution[k + 1]
              w == IF k = 0 THEN net.embed_dim \div 4
                   ELSE IF k = 1 THEN net.embed_dim \div 2
                   ELSE IF k = 2 THEN net.embed_dim
                   ELSE 2 * net.embed_dim
          IN  /\ x = <<pc.input[1], w, r, r>>
              /\ net.pos_embed_shape[k + 1] = <<1, w, r, r>>
              /\ Broadcastable(x, net.pos_embed_shape[k + 1])
              /\ Broadcast(x, net.pos_embed_shape[k + 1]) = x
    /\ pc.at = "failed" => y.at \notin {"patch_embed", "pos_embed"}

\* C11 as stated: for every img_size >= 32, odd and non-multiples of 32
\* included, the feature map entering stage k has the widths C/4, C/2, C, 2C
\* and the resolution the constructor tracked, and matches the positional
\* embedding exactly
C11_GeometryAsStated == (FedOwnSize /\ net.img_size >= 32) => StageGeometry

\* C11 (amended): the same for every img_size >= 32 with img_size mod 4 # 3,
\* at every stage the forward pass reaches
C11_StageGeometry ==
    (FedOwnSize /\ net.img_size >= 32 /\ net.img_size % 4 # 3)
    => StageGeometry

C11_Witness ==
    /\ FedOwnSize
    /\ net.img_size = 33
    /\ net.pos_embed
    /\ pc.at = "blocks"
    /\ pc.stage = 3
    /\ x = <<pc.input[1], 2 * net.embed_dim, 1, 1>>

\* C12: a factory called with num_classes = k returns a model whose head has
\* k outputs, so a forward pass on N images yields logits of shape (N, k)
C12_FactoryNumClasses ==
    (args.call \in DOMAIN PresetTable /\ Built)
    => /\ net.num_classes = args.num_classes
       /\ net.head[2] = args.num_classes
       /\ pc.at = "done" => y.shape = <<pc.input[1], args.num_classes>>

====
